---- MODULE Spec2Model ----
(***************************************************************************)
(* A model of the crawl coordination of webscraper-pro:                    *)
(*   backend/app/core/scraper/engine.py  (ScraperEngine)                   *)
(*   backend/app/api/scrape.py           (run_scrape_job, cancel_job)      *)
(* Every asyncio task is a process; a step of the model is the code a task *)
(* runs between two of its await points.                                   *)
(***************************************************************************)
EXTENDS Integers, Sequences, FiniteSets, TLC

VARIABLES
    site,              \* the crawled site: the links extract_links returns for
                       \* each page, and the urls that are not text/html
    max_pages,         \* scrape_config["max_pages"]
    max_depth,         \* scrape_config["max_depth"]
    follow_external,   \* scrape_config["follow_external"]
    respect_robots,    \* scrape_config["respect_robots"]
    robots_rules,      \* Crawler.robots_rules: the urls whose path starts
                       \* with a Disallow prefix the crawler has recorded
    db_status,         \* ScrapeJob.status as stored in the database row
    job_status,        \* job.status of the ORM object run_scrape_job holds
    job_synced,        \* the status that session last loaded or flushed
    runPc,             \* position of run_scrape_job / ScraperEngine.run
    cancelled,         \* ScraperEngine._cancelled
    url_queue,         \* ScraperEngine.url_queue: the entries still queued
    unfinished,        \* url_queue._unfinished_tasks
    joinWoken,         \* url_queue._finished was set while run() waits in join()
    visited_urls,      \* ScraperEngine.visited_urls
    wpc,               \* position of each _worker task
    item,              \* the (url, depth) a worker has dequeued
    wcancel,           \* worker.cancel() was called on a live worker task
    pages_discovered,  \* job.pages_discovered
    pages_scraped,     \* job.pages_scraped
    pages_failed,      \* job.pages_failed
    error_log,         \* job.error_log, the url of each record in order
    pages,             \* the Page rows of the project: records [url, depth]
    fetched,           \* history: url -> number of client.get(url) calls
    fetch_errors,      \* history: the urls whose fetch raised
    enqueued,          \* history: url -> number of url_queue.put calls
    delay_owed,        \* history: the worker has fetched and not slept since
    cancelPc,          \* position of the cancel_job request handler
    cancelSeen,        \* job.status as loaded by cancel_job
    cancelReqs,        \* number of cancel_job requests handled so far
    site_markdown,     \* re-crawls: the markdown the page's url yields now
    page_rows,         \* re-crawls: the Page rows of the url's (project, url_hash)
    version_rows,      \* re-crawls: the PageVersion rows, in creation order
    now,               \* re-crawls: datetime.utcnow(), a counter
    spc,               \* re-crawls: position of each job's _scrape_page call
    extracted,         \* re-crawls: extracted["markdown"] of each call
    existing_page,     \* re-crawls: the Page each call has loaded, or NoPage
    crawl_log,         \* history: the markdown each crawl of the url extracted
    crawl_failed,      \* history: number of crawls that ended in the handler
    overlapped,        \* history: two crawls of the url were under way at once
    storage_errors,    \* history: number of db.commit() calls of workers that raised
    sink_errors,       \* history: the urls for which an on_progress call raised
    auth_method,       \* project.auth_method
    cookie_jar,        \* the cookies the browser or the login page holds, in order
    authPc,            \* position of _setup_auth / AuthHandler.get_credentials
    jar_pos,           \* number of cookies the handler's loop has gone through
    handler_cookies,   \* the local dict cookies of the handler: the names it holds
    auth_failed,       \* history: a step of the cookie acquisition raised
    credentials,       \* the (cookies, headers) pair get_credentials returned
    cookies,           \* ScraperEngine.cookies
    headers,           \* ScraperEngine.headers
    client_headers,    \* the headers the httpx.AsyncClient of run() was built with
    robots_content,    \* the lines of robots.txt: User-agent and Disallow lines
    robots_pos,        \* number of lines _parse_robots has gone through
    current_agent,     \* current_agent of _parse_robots, NoAgent for None
    rules,             \* Crawler.robots_rules as the dict agent -> Disallow values
    checked_path,      \* the path of the url is_allowed was called with
    checked_allowed,   \* what is_allowed returned
    robotsPc,          \* robots.txt is being parsed, or a url has been checked
    soup,              \* the parsed document: parent, tag and class + id keywords
    in_tree,           \* the nodes still in the document
    elements_to_remove, \* elements_to_remove of _clean_soup
    cleanPc,           \* position of _clean_soup
    text_words,        \* words of chunk_text: text.split()
    chunk_size,        \* chunk_size of chunk_text
    chunk_overlap,     \* chunk_overlap of chunk_text
    start,             \* start of chunk_text
    chunks,            \* chunks of chunk_text, each chunk as its words
    page_chunks,       \* the PageChunk rows added for the page
    chunkPc,           \* position of chunk_text and of the loop that adds the rows
    job_rows,          \* the ScrapeJob rows of the project: the status of each
    startPc,           \* position of each start_scrape request
    runnerPc,          \* position of run_scrape_job for each job
    cancels            \* number of cancel_job requests accepted so far

vars == << site, max_pages, max_depth, follow_external, respect_robots,
           robots_rules, db_status, job_status, job_synced, runPc,
           cancelled, url_queue, unfinished, joinWoken, visited_urls, wpc, item,
           wcancel, pages_discovered, pages_scraped, pages_failed, error_log,
           pages, fetched, fetch_errors, enqueued, delay_owed, cancelPc, cancelSeen,
           cancelReqs, site_markdown, page_rows, version_rows, now, spc,
           extracted, existing_page, crawl_log, crawl_failed, overlapped,
           storage_errors, sink_errors, auth_method, cookie_jar, authPc, jar_pos,
           handler_cookies, auth_failed, credentials, cookies, headers,
           client_headers, robots_content, robots_pos, current_agent, rules,
           checked_path, checked_allowed, robotsPc, soup, in_tree,
           elements_to_remove, cleanPc, text_words, chunk_size, chunk_overlap,
           start, chunks, page_chunks, chunkPc, job_rows, startPc, runnerPc,
           cancels >>

historyVars == << fetched, fetch_errors, enqueued, delay_owed >>

configVars == << site, max_pages, max_depth, follow_external, respect_robots,
                robots_rules >>
jobVars == << db_status, job_status, job_synced >>
counterVars == << pages_discovered, pages_scraped, pages_failed, error_log >>
queueVars == << url_queue, unfinished, joinWoken >>
workerVars == << wpc, item, wcancel >>
endpointVars == << cancelPc, cancelSeen, cancelReqs >>
faultVars == << storage_errors, sink_errors >>
storeVars == << site_markdown, page_rows, version_rows, now, spc, extracted,
                existing_page, crawl_log, crawl_failed, overlapped >>
authVars == << auth_method, cookie_jar, authPc, jar_pos, handler_cookies, auth_failed,
               credentials, cookies, headers, client_headers >>
robotsVars == << robots_content, robots_pos, current_agent, rules, checked_path,
                 checked_allowed, robotsPc >>
cleanVars == << soup, in_tree, elements_to_remove, cleanPc >>
chunkVars == << text_words, chunk_size, chunk_overlap, start, chunks, page_chunks,
                chunkPc >>
startVars == << job_rows, startPc, runnerPc, cancels >>
unitVars == << authVars, robotsVars, cleanVars, chunkVars, startVars >>
crawlVars == << configVars, storeVars, faultVars, jobVars, runPc, cancelled, queueVars,
                visited_urls, workerVars, counterVars, pages, historyVars, endpointVars >>
notAuthVars == << crawlVars, robotsVars, cleanVars, chunkVars, startVars >>
notRobotsVars == << crawlVars, authVars, cleanVars, chunkVars, startVars >>
notCleanVars == << crawlVars, authVars, robotsVars, chunkVars, startVars >>
notChunkVars == << crawlVars, authVars, robotsVars, cleanVars, startVars >>
notStartVars == << crawlVars, authVars, robotsVars, cleanVars, chunkVars >>

-----------------------------------------------------------------------------
(* Bounds of the model *)

\* max_pages is drawn from 1..MaxPagesBound
MaxPagesBound == 5
\* max_depth is drawn from 0..MaxDepthBound
MaxDepthBound == 2
\* at most this many fetches of one job end in an error
MaxFetchErrors == 1
\* at most this many cancel_job requests are handled
MaxCancelRequests == 1
\* at most this many db.commit() calls of the workers of a job raise
MaxStorageErrors == 1
\* at most this many on_progress calls of a job raise
MaxSinkErrors == 1
\* at most this many crawls of one url are followed across jobs
MaxCrawls == 3
\* the jobs of one project whose crawls of a url can be under way at once
MaxJobs == 2

(* Program constants *)

\* settings.MAX_CONCURRENT_SCRAPES
MAX_CONCURRENT_SCRAPES == 5
\* the hard cap on the worker pool in ScraperEngine.run
WorkerCap == 3

Min(a, b) == IF a < b THEN a ELSE b

\* range(min(settings.MAX_CONCURRENT_SCRAPES, 3))
Workers == 0 .. (Min(MAX_CONCURRENT_SCRAPES, WorkerCap) - 1)

\* ScrapeStatus
PENDING == "pending"
RUNNING == "running"
COMPLETED == "completed"
FAILED == "failed"
CANCELLED == "cancelled"

-----------------------------------------------------------------------------
(* The sites the crawl runs on.  base_url is "s". *)

URLs == {"s", "a", "b", "c", "d", "x", "r"}
base_url == "s"

\* two pages link to the same two pages c and d; d is not an HTML document
Mesh == [ links |-> [u \in URLs |->
                       CASE u = "s" -> {"a", "b"}
                         [] u = "a" -> {"c", "d"}
                         [] u = "b" -> {"c", "d"}
                         [] OTHER -> {"s"}],
          nonhtml |-> {"d"}, external |-> {}, disallow |-> {} ]

\* five HTML pages, each linked from exactly one other page
Tree == [ links |-> [u \in URLs |->
                       CASE u = "s" -> {"a", "b"}
                         [] u = "a" -> {"c"}
                         [] u = "b" -> {"d"}
                         [] OTHER -> {"s"}],
          nonhtml |-> {}, external |-> {}, disallow |-> {} ]

\* the seed links to a page of its own domain and to x on another domain
Ex == [ links |-> [u \in URLs |->
                     CASE u = "s" -> {"a", "x"}
                       [] OTHER -> {"s"}],
        nonhtml |-> {}, external |-> {"x"}, disallow |-> {} ]

\* the site's robots.txt disallows for agent * a prefix of the path of r
Gated == [ links |-> [u \in URLs |->
                        CASE u = "s" -> {"a", "r"}
                          [] OTHER -> {"s"}],
           nonhtml |-> {}, external |-> {}, disallow |-> {"r"} ]

Sites == {Mesh, Tree, Ex, Gated}

None == << >>

\* the orders in which the links of list(set(links)) can be iterated
Orders(S) == { q \in [1 .. Cardinality(S) -> S] :
                 \A i, j \in 1 .. Cardinality(S) : i # j => q[i] # q[j] }

-----------------------------------------------------------------------------
(* The stored rows of one url of the project, followed across jobs.  Each  *)
(* job crawls the url at most once (C1); a later job crawls it again.      *)

ScrapeJobs == 1 .. MaxJobs

\* the markdown the extractor can produce for the url
Markdowns == {"m1", "m2"}

\* scalar_one_or_none() returned None
NoPage == [id |-> 0, content_markdown |-> ""]

\* the project before its first crawl
StoreInit ==
    /\ site_markdown = "m1"
    /\ page_rows = << >>
    /\ version_rows = << >>
    /\ now = 0
    /\ spc = [j \in ScrapeJobs |-> "idle"]
    /\ extracted = [j \in ScrapeJobs |-> ""]
    /\ existing_page = [j \in ScrapeJobs |-> NoPage]
    /\ crawl_log = << >>
    /\ crawl_failed = 0
    /\ overlapped = FALSE

-----------------------------------------------------------------------------
(* State after start_scrape has created the job and queued run_scrape_job *)

JobCreated ==
    /\ site \in Sites
    /\ max_pages \in 1 .. MaxPagesBound
    /\ max_depth \in 0 .. MaxDepthBound
    /\ follow_external \in (IF site.external = {} THEN {FALSE} ELSE BOOLEAN)
    /\ respect_robots \in (IF site.disallow = {} THEN {TRUE} ELSE BOOLEAN)
    /\ robots_rules = {}
    /\ db_status = PENDING
    /\ job_status = PENDING
    /\ job_synced = PENDING
    /\ runPc = "queued"
    /\ cancelled = FALSE
    /\ url_queue = << >>
    /\ unfinished = 0
    /\ joinWoken = FALSE
    /\ visited_urls = {}
    /\ wpc = [w \in Workers |-> "none"]
    /\ item = [w \in Workers |-> None]
    /\ wcancel = [w \in Workers |-> FALSE]
    /\ pages_discovered = 0
    /\ pages_scraped = 0
    /\ pages_failed = 0
    /\ error_log = << >>
    /\ pages = {}
    /\ fetched = [u \in URLs |-> 0]
    /\ fetch_errors = {}
    /\ enqueued = [u \in URLs |-> 0]
    /\ delay_owed = [w \in Workers |-> FALSE]
    /\ cancelPc = "idle"
    /\ cancelSeen = PENDING
    /\ cancelReqs = 0
    /\ StoreInit
    /\ storage_errors = 0
    /\ sink_errors = {}

-----------------------------------------------------------------------------
(* AuthHandler.get_credentials, ScraperEngine._setup_auth and the headers   *)
(* of the client ScraperEngine.run builds                                   *)

\* the handler's loop goes through at most this many cookies
MaxCookies == 2

\* AuthMethod, and a value of project.auth_method outside the enum
AuthMethods == {"none", "browser_cookies", "manual_login", "credentials", "unknown"}

\* the methods that drive a playwright browser
BrowserDriven == {"manual_login", "credentials"}

CookieNames == {"sid", "tok"}

\* a cookie: its name (the value travels with it) and the domain it is for
Cookies == [name : CookieNames, domain : {"site", "other"}]

Jars == UNION {[1 .. n -> Cookies] : n \in 0 .. MaxCookies}

\* self.headers as the constructor sets it
FixedHeaders == [h \in {"User-Agent"} |-> "WebScraperPro/1.0 (Content Extraction Tool)"]

\* an empty dict
EmptyDict == << >>

AuthIdle ==
    /\ auth_method = "none"
    /\ cookie_jar = << >>
    /\ authPc = "call"
    /\ jar_pos = 0
    /\ handler_cookies = {}
    /\ auth_failed = FALSE
    /\ credentials = << {}, EmptyDict >>
    /\ cookies = {}
    /\ headers = FixedHeaders
    /\ client_headers = EmptyDict

\* if domain in cookie.domain (the playwright methods keep every cookie)
Kept(c) == auth_method # "browser_cookies" \/ c.domain = "site"

\* cookies[cookie.name] = cookie.value
CollectNothing(cs, c) == cs

Collect(cs, c) == cs \cup {c.name}

\* the dispatch of get_credentials: no method but the three handlers
\* acquires anything
GetCredentials ==
    /\ authPc = "call"
    /\ IF auth_method \in BrowserDriven \cup {"browser_cookies"}
       THEN /\ authPc' = "acquire"
            /\ UNCHANGED credentials
       ELSE /\ authPc' = "returned"
            /\ credentials' = << {}, EmptyDict >>
    /\ UNCHANGED << auth_method, cookie_jar, jar_pos, handler_cookies, auth_failed,
                    cookies, headers, client_headers, notAuthVars >>

\* except Exception: the handler prints and returns what cookies holds
HandlerFails ==
    /\ auth_failed' = TRUE
    /\ authPc' = "returned"
    /\ credentials' = << handler_cookies, EmptyDict >>
    /\ UNCHANGED << auth_method, cookie_jar, jar_pos, handler_cookies,
                    cookies, headers, client_headers, notAuthVars >>

\* the cookie store is read, or the browser is launched and the login done
Acquire ==
    /\ authPc = "acquire"
    /\ authPc' = "read"
    /\ UNCHANGED << auth_method, cookie_jar, jar_pos, handler_cookies, auth_failed,
                    credentials, cookies, headers, client_headers, notAuthVars >>

AcquireRaises ==
    /\ authPc = "acquire"
    /\ HandlerFails

\* one iteration of for cookie in ...
ReadCookie ==
    /\ authPc = "read"
    /\ jar_pos < Len(cookie_jar)
    /\ jar_pos' = jar_pos + 1
    /\ handler_cookies' = IF Kept(cookie_jar[jar_pos + 1])
                          THEN Collect(handler_cookies, cookie_jar[jar_pos + 1])
                          ELSE handler_cookies
    /\ UNCHANGED << auth_method, cookie_jar, authPc, auth_failed, credentials,
                    cookies, headers, client_headers, notAuthVars >>

\* the iteration raises
ReadRaises ==
    /\ authPc = "read"
    /\ jar_pos < Len(cookie_jar)
    /\ HandlerFails

\* the loop is over: the playwright methods close the browser next
ReadDone ==
    /\ authPc = "read"
    /\ jar_pos = Len(cookie_jar)
    /\ IF auth_method \in BrowserDriven
       THEN /\ authPc' = "close"
            /\ UNCHANGED credentials
       ELSE /\ authPc' = "returned"
            /\ credentials' = << handler_cookies, EmptyDict >>
    /\ UNCHANGED << auth_method, cookie_jar, jar_pos, handler_cookies, auth_failed,
                    cookies, headers, client_headers, notAuthVars >>

\* await browser.close() and the exit of async with async_playwright()
CloseBrowser ==
    /\ authPc = "close"
    /\ authPc' = "returned"
    /\ credentials' = << handler_cookies, EmptyDict >>
    /\ UNCHANGED << auth_method, cookie_jar, jar_pos, handler_cookies, auth_failed,
                    cookies, headers, client_headers, notAuthVars >>

CloseRaises ==
    /\ authPc = "close"
    /\ HandlerFails

\* self.cookies, self.headers = await auth_handler.get_credentials()
SetupAuth ==
    /\ authPc = "returned"
    /\ authPc' = "assigned"
    /\ cookies' = credentials[1]
    /\ headers' = credentials[2]
    /\ UNCHANGED << auth_method, cookie_jar, jar_pos, handler_cookies, auth_failed,
                    credentials, client_headers, notAuthVars >>

\* httpx.AsyncClient(cookies=self.cookies, headers=self.headers, ...)
BuildClient ==
    /\ authPc = "assigned"
    /\ authPc' = "client"
    /\ client_headers' = headers
    /\ UNCHANGED << auth_method, cookie_jar, jar_pos, handler_cookies, auth_failed,
                    credentials, cookies, headers, notAuthVars >>

\* the project's method and what the browser holds
AuthInputs ==
    /\ auth_method \in AuthMethods
    /\ cookie_jar \in Jars
    /\ authPc = "call"
    /\ jar_pos = 0
    /\ handler_cookies = {}
    /\ auth_failed = FALSE
    /\ credentials = << {}, EmptyDict >>
    /\ cookies = {}
    /\ headers = FixedHeaders
    /\ client_headers = EmptyDict

AuthNext ==
    \/ GetCredentials
    \/ Acquire
    \/ AcquireRaises
    \/ ReadCookie
    \/ ReadRaises
    \/ ReadDone
    \/ CloseBrowser
    \/ CloseRaises
    \/ SetupAuth
    \/ BuildClient

\* the names of the kept cookies among the first k of the jar
KeptOf(k) == {cookie_jar[i].name : i \in {j \in 1 .. k : Kept(cookie_jar[j])}}

C24_ClientSendsFixedUserAgent ==
    authPc = "client"
        => /\ "User-Agent" \in DOMAIN client_headers
           /\ client_headers["User-Agent"] = FixedHeaders["User-Agent"]

-----------------------------------------------------------------------------
(* Crawler._parse_robots and Crawler.is_allowed over the text of robots.txt *)

\* robots.txt has at most this many User-agent / Disallow lines
MaxLines == 4
\* a Disallow value has at most this many characters
MaxPrefixLen == 1
\* the path of a checked url has at most this many characters
MaxPathLen == 2

\* the characters of paths: an upper-case letter, its lower-case form, another
Chars == {"A", "a", "b"}

\* str.lower() on one character
LowerChar(c) == IF c = "A" THEN "a" ELSE c

\* str.lower() on a string of characters
Lower(str) == [i \in 1 .. Len(str) |-> LowerChar(str[i])]

Strings(n) == UNION {[1 .. k -> Chars] : k \in 0 .. n}

\* the values of User-agent lines, and what line.strip().lower() makes of them
Agents == {"*", "WebScraperPro", "Googlebot"}

LowerAgent(a) ==
    CASE a = "WebScraperPro" -> "webscraperpro"
      [] a = "Googlebot" -> "googlebot"
      [] OTHER -> a

\* "webscraper" in agent
HasToken(agent) == agent = "webscraperpro"

\* agent == "*" or "webscraper" in agent
AgentMatches(agent) == agent = "*" \/ HasToken(agent)

\* the lines of a robots.txt
Lines == [field : {"user-agent"}, value : Agents]
             \cup [field : {"disallow"}, value : Strings(MaxPrefixLen)]

Contents == UNION {[1 .. n -> Lines] : n \in 0 .. MaxLines}

\* str.startswith
StartsWith(str, prefix) ==
    /\ Len(prefix) <= Len(str)
    /\ \A i \in 1 .. Len(prefix) : str[i] = prefix[i]

\* current_agent = None
NoAgent == ""

RobotsIdle ==
    /\ robots_content = << >>
    /\ robots_pos = 0
    /\ current_agent = NoAgent
    /\ rules = << >>
    /\ checked_path = << >>
    /\ checked_allowed = TRUE
    /\ robotsPc = "parse"

\* the branch of the loop body for a User-agent line
ParseUserAgent ==
    /\ robotsPc = "parse"
    /\ robots_pos < Len(robots_content)
    /\ robots_content[robots_pos + 1].field = "user-agent"
    /\ LET agent == LowerAgent(robots_content[robots_pos + 1].value)
       IN  current_agent' = IF AgentMatches(agent) THEN agent ELSE current_agent
    /\ robots_pos' = robots_pos + 1
    /\ UNCHANGED << robots_content, rules, checked_path, checked_allowed, robotsPc,
                    notRobotsVars >>

\* the branch of the loop body for a Disallow line
ParseDisallow ==
    /\ robotsPc = "parse"
    /\ robots_pos < Len(robots_content)
    /\ robots_content[robots_pos + 1].field = "disallow"
    /\ LET path == Lower(robots_content[robots_pos + 1].value)
       IN  rules' = IF current_agent # NoAgent /\ path # << >>
                    THEN IF current_agent \in DOMAIN rules
                         THEN [rules EXCEPT ![current_agent] = Append(@, path)]
                         ELSE rules @@ (current_agent :> << path >>)
                    ELSE rules
    /\ robots_pos' = robots_pos + 1
    /\ UNCHANGED << robots_content, current_agent, checked_path, checked_allowed,
                    robotsPc, notRobotsVars >>

\* Crawler.is_allowed on the path of a url, over the parsed rules
PathAllowed(path) ==
    \/ ~respect_robots
    \/ DOMAIN rules = {}
    \/ \A agent \in DOMAIN rules :
         \A k \in 1 .. Len(rules[agent]) : ~StartsWith(path, rules[agent][k])

\* is_allowed(url) is called once the file is parsed
CheckUrl ==
    /\ robotsPc = "parse"
    /\ robots_pos = Len(robots_content)
    /\ \E path \in Strings(MaxPathLen) :
         /\ checked_path' = path
         /\ checked_allowed' = PathAllowed(path)
    /\ robotsPc' = "checked"
    /\ UNCHANGED << robots_content, robots_pos, current_agent, rules, notRobotsVars >>

\* the text of robots.txt
RobotsInputs ==
    /\ robots_content \in Contents
    /\ robots_pos = 0
    /\ current_agent = NoAgent
    /\ rules = << >>
    /\ checked_path = << >>
    /\ checked_allowed = TRUE
    /\ robotsPc = "parse"

RobotsNext == ParseUserAgent \/ ParseDisallow \/ CheckUrl

\* the User-agent lines of the block a line belongs to: the run of
\* consecutive User-agent lines nearest before it
BlockAgents(i) ==
    LET uas  == {j \in 1 .. (i - 1) : robots_content[j].field = "user-agent"}
        last == CHOOSE j \in uas : \A k \in uas : k <= j
    IN  IF uas = {} THEN {}
        ELSE {robots_content[j].value :
                j \in {k \in uas : \A m \in k .. last : m \in uas}}

\* the url's path starts with a non-empty Disallow prefix of a block whose
\* User-agent is * or contains the crawler token
Restricted(path) ==
    \E i \in 1 .. Len(robots_content) :
        /\ robots_content[i].field = "disallow"
        /\ robots_content[i].value # << >>
        /\ StartsWith(path, robots_content[i].value)
        /\ \E a \in BlockAgents(i) : AgentMatches(LowerAgent(a))

\* C25: once robots.txt is parsed, is_allowed(url) is false exactly when the
\* url's path starts with a non-empty Disallow prefix of a block whose
\* User-agent is * or holds the crawler token; the Disallow lines after a
\* non-matching User-agent line restrict nothing.
C25_DisallowedIffMatchingBlockPrefix ==
    robotsPc = "checked" => (~checked_allowed <=> Restricted(checked_path))

-----------------------------------------------------------------------------
(* ContentExtractor._clean_soup over a parsed document                     *)

\* the document has this many nodes below the root
MaxNodes == 3

Nodes == 1 .. MaxNodes

\* the root of the soup
Root == 0

\* a tag outside REMOVE_TAGS, a tag of REMOVE_TAGS, a comment node
NodeTags == {"div", "nav", "#comment"}

\* REMOVE_TAGS, as far as the documents use it
REMOVE_TAGS == {"nav"}

\* the keywords a class + id string can hold: one REMOVE_PATTERNS matches
\* and one of CONTENT_INDICATORS
REMOVE_PATTERNS == {"sidebar"}

CONTENT_INDICATORS == {"content"}

\* the documents: each node has a parent before it in document order, a tag,
\* and the keywords of its class and id; a comment has neither children nor
\* attributes
Soups ==
    {d \in [Nodes -> [parent : {Root} \cup Nodes, tag : NodeTags,
                      words : SUBSET (REMOVE_PATTERNS \cup CONTENT_INDICATORS)]] :
        \A n \in Nodes :
            /\ d[n].parent < n
            /\ d[n].parent # Root => d[d[n].parent].tag # "#comment"
            /\ d[n].tag = "#comment" => d[n].words = {}}

CleanIdle ==
    /\ soup = [n \in Nodes |-> [parent |-> Root, tag |-> "div", words |-> {}]]
    /\ in_tree = {}
    /\ elements_to_remove = << >>
    /\ cleanPc = "done"

\* the node and the nodes below it
RECURSIVE Within(_, _)
Within(n, top) ==
    IF n = top THEN TRUE
    ELSE IF n = Root THEN FALSE
    ELSE Within(soup[n].parent, top)

\* tag.decompose(), element.decompose(): the node goes with all below it
Decomposed(tree, top) == {n \in tree : ~Within(n, top)}

RECURSIVE DecomposedAll(_, _)
DecomposedAll(tree, tops) ==
    IF tops = {} THEN tree
    ELSE LET top == CHOOSE t \in tops : TRUE
         IN  DecomposedAll(Decomposed(tree, top), tops \ {top})

\* the first loop: comment.extract() for every comment
RemoveComments ==
    /\ cleanPc = "comments"
    /\ in_tree' = {n \in in_tree : soup[n].tag # "#comment"}
    /\ cleanPc' = "tags"
    /\ UNCHANGED << soup, elements_to_remove, notCleanVars >>

\* the second loop: tag.decompose() for every tag of REMOVE_TAGS
RemoveTags ==
    /\ cleanPc = "tags"
    /\ in_tree' = DecomposedAll(in_tree, {n \in in_tree : soup[n].tag \in REMOVE_TAGS})
    /\ cleanPc' = "collect"
    /\ UNCHANGED << soup, elements_to_remove, notCleanVars >>

\* pattern.search(combined)
MatchesPattern(words) == words \cap REMOVE_PATTERNS # {}

\* any(ind in combined.lower() for ind in self.CONTENT_INDICATORS)
HasIndicator(words) == words \cap CONTENT_INDICATORS # {}

\* the elements of a set of nodes in document order
RECURSIVE InOrder(_)
InOrder(ns) ==
    IF ns = {} THEN << >>
    ELSE LET first == CHOOSE n \in ns : \A m \in ns : n <= m
         IN  << first >> \o InOrder(ns \ {first})

\* the third loop: the elements whose class + id matches a pattern and holds
\* no content indicator are collected
CollectBoilerplate ==
    /\ cleanPc = "collect"
    /\ elements_to_remove' =
         InOrder({n \in in_tree : /\ MatchesPattern(soup[n].words)
                                  /\ ~HasIndicator(soup[n].words)})
    /\ cleanPc' = "remove"
    /\ UNCHANGED << soup, in_tree, notCleanVars >>

\* one iteration of the last loop: element.decompose()
DecomposeElement ==
    /\ cleanPc = "remove"
    /\ elements_to_remove # << >>
    /\ in_tree' = Decomposed(in_tree, Head(elements_to_remove))
    /\ elements_to_remove' = Tail(elements_to_remove)
    /\ UNCHANGED << soup, cleanPc, notCleanVars >>

\* the last loop is over
CleanDone ==
    /\ cleanPc = "remove"
    /\ elements_to_remove = << >>
    /\ cleanPc' = "done"
    /\ UNCHANGED << soup, in_tree, elements_to_remove, notCleanVars >>

\* the document _clean_soup is called with
CleanInputs ==
    /\ soup \in Soups
    /\ in_tree = Nodes
    /\ elements_to_remove = << >>
    /\ cleanPc = "comments"

CleanNext ==
    \/ RemoveComments
    \/ RemoveTags
    \/ CollectBoilerplate
    \/ DecomposeElement
    \/ CleanDone

\* the node is an element with a tag outside REMOVE_TAGS and outside every
\* element with such a tag
OutsideRemovedTags(n) ==
    /\ soup[n].tag = "div"
    /\ \A top \in Nodes : Within(n, top) => soup[top].tag \notin REMOVE_TAGS

\* C26: an element with a tag outside the blacklist, outside every
\* blacklisted element, whose class + id holds a content indicator is still
\* in the document after _clean_soup, whatever its ancestors' class and id.
C26_ContentIndicatorKept ==
    cleanPc = "done"
        => \A n \in Nodes :
             (OutsideRemovedTags(n) /\ HasIndicator(soup[n].words)) => n \in in_tree

-----------------------------------------------------------------------------
(* chunk_text, and the PageChunk rows _scrape_page adds for a new page      *)

\* a text has at most this many words
MaxWords == 8
\* the chunk size is at most this many words
MaxChunkSize == 4

\* the text is extracted["text"], which _to_text has stripped: it is the
\* empty string exactly when it has no word.  A word is known by its place.
Texts == {[i \in 1 .. n |-> i] : n \in 0 .. MaxWords}

ChunkIdle ==
    /\ text_words = << >>
    /\ chunk_size = 2
    /\ chunk_overlap = 1
    /\ start = 0
    /\ chunks = << >>
    /\ page_chunks = << >>
    /\ chunkPc = "stored"

\* words[start:end]
Slice(words, from, to) == SubSeq(words, from + 1, Min(to, Len(words)))

\* start = end - chunk_overlap
NextStartNoOverlap(end, overlap) == end

NextStart(end, overlap) == end - overlap

\* the two early returns, or the loop is entered
ChunkText ==
    /\ chunkPc = "call"
    /\ IF text_words = << >>
       THEN /\ chunks' = << >>
            /\ chunkPc' = "returned"
       ELSE IF Len(text_words) <= chunk_size
       THEN /\ chunks' = << text_words >>
            /\ chunkPc' = "returned"
       ELSE /\ chunks' = << >>
            /\ chunkPc' = "loop"
    /\ start' = 0
    /\ UNCHANGED << text_words, chunk_size, chunk_overlap, page_chunks, notChunkVars >>

\* one iteration of while start < len(words)
ChunkLoop ==
    /\ chunkPc = "loop"
    /\ start < Len(text_words)
    /\ LET end == start + chunk_size
       IN  /\ chunks' = Append(chunks, Slice(text_words, start, end))
           /\ start' = NextStart(end, chunk_overlap)
    /\ UNCHANGED << text_words, chunk_size, chunk_overlap, page_chunks, chunkPc,
                    notChunkVars >>

\* return chunks
ChunkReturn ==
    /\ chunkPc = "loop"
    /\ start >= Len(text_words)
    /\ chunkPc' = "returned"
    /\ UNCHANGED << text_words, chunk_size, chunk_overlap, start, chunks, page_chunks,
                    notChunkVars >>

\* one iteration of for i, chunk_text_content in enumerate(chunks)
AddPageChunk ==
    /\ chunkPc = "returned"
    /\ Len(page_chunks) < Len(chunks)
    /\ LET i == Len(page_chunks)
       IN  page_chunks' = Append(page_chunks,
                                 [chunk_index |-> i, content |-> chunks[i + 1],
                                  token_count |-> Len(chunks[i + 1])])
    /\ UNCHANGED << text_words, chunk_size, chunk_overlap, start, chunks, chunkPc,
                    notChunkVars >>

\* the rows are added: the commit of _scrape_page follows
ChunksStored ==
    /\ chunkPc = "returned"
    /\ Len(page_chunks) = Len(chunks)
    /\ chunkPc' = "stored"
    /\ UNCHANGED << text_words, chunk_size, chunk_overlap, start, chunks, page_chunks,
                    notChunkVars >>

\* the text of a new page, the chunk size S and the overlap V, 0 < V < S
ChunkInputs ==
    /\ text_words \in Texts
    /\ chunk_size \in 2 .. MaxChunkSize
    /\ chunk_overlap \in 1 .. (chunk_size - 1)
    /\ start = 0
    /\ chunks = << >>
    /\ page_chunks = << >>
    /\ chunkPc = "call"

ChunkNext ==
    \/ ChunkText
    \/ ChunkLoop
    \/ ChunkReturn
    \/ AddPageChunk
    \/ ChunksStored

\* chunk i (counted from 0) starts i * (S - V) words into the text
WindowStart(i) == i * (chunk_size - chunk_overlap)

\* the number of windows that start inside a text longer than S
WindowCount ==
    Cardinality({i \in 0 .. Len(text_words) : WindowStart(i) < Len(text_words)})

\* C27 (as stated): chunk i is words[i*(S-V) .. i*(S-V)+S) and only the last
\* chunk can be shorter than S words.
C27_OnlyLastChunkShorter ==
    chunkPc \in {"returned", "stored"}
        => \A i \in 1 .. Len(chunks) :
             /\ chunks[i] = Slice(text_words, WindowStart(i - 1), WindowStart(i - 1) + chunk_size)
             /\ (i < Len(chunks) => Len(chunks[i]) = chunk_size)

\* C27 (amended): chunk i is the window words[i*(S-V) .. i*(S-V)+S) cut off
\* at the end of the text; there is one chunk for every window that starts
\* inside the text (one chunk for a text of at most S words, none for the
\* empty text), so every chunk whose window passes the end of the text is
\* shorter than S, not only the last one; every chunk is non-empty and has at
\* most S words, every word is in a chunk, and the PageChunks carry
\* chunk_index 0 .. m-1 in order.
C27_ChunksAreCutWindows ==
    chunkPc \in {"returned", "stored"}
        => /\ \A i \in 1 .. Len(chunks) :
                /\ chunks[i] = Slice(text_words, WindowStart(i - 1),
                                     WindowStart(i - 1) + chunk_size)
                /\ chunks[i] # << >>
                /\ Len(chunks[i]) <= chunk_size
           /\ Len(chunks) = IF Len(text_words) <= chunk_size
                            THEN (IF text_words = << >> THEN 0 ELSE 1)
                            ELSE WindowCount
           /\ \A k \in 1 .. Len(text_words) :
                \E i \in 1 .. Len(chunks) :
                    \E j \in 1 .. Len(chunks[i]) : chunks[i][j] = text_words[k]
           /\ chunkPc = "stored"
                => /\ Len(page_chunks) = Len(chunks)
                   /\ \A i \in 1 .. Len(chunks) :
                        /\ page_chunks[i].chunk_index = i - 1
                        /\ page_chunks[i].content = chunks[i]

C27_Witness ==
    /\ chunkPc = "stored"
    /\ Len(page_chunks) >= 3
    /\ \E i \in 1 .. (Len(chunks) - 1) : Len(chunks[i]) < chunk_size

-----------------------------------------------------------------------------
(* start_scrape, cancel_job and run_scrape_job over the ScrapeJob rows of   *)
(* one project                                                              *)

\* this many start requests for the project are made
MaxStarts == 3
\* at most this many cancel_job requests are accepted
MaxCancels == 1

StartRequests == 1 .. MaxStarts

\* the ids a created job can get
JobIds == 1 .. MaxStarts

\* no row with this id
NoJob == "none"

StartIdle ==
    /\ job_rows = [j \in JobIds |-> NoJob]
    /\ startPc = [r \in StartRequests |-> "none"]
    /\ runnerPc = [j \in JobIds |-> "none"]
    /\ cancels = 0

\* ScrapeJob.status.in_([ScrapeStatus.PENDING, ScrapeStatus.RUNNING])
Active(rows) == {j \in JobIds : rows[j] \in {PENDING, RUNNING}}

\* start_scrape up to its answer on the active-job query: one active job
\* makes it answer 400, several make scalar_one_or_none raise
StartCheck(r) ==
    /\ startPc[r] = "request"
    /\ startPc' = [startPc EXCEPT ![r] =
                     IF Active(job_rows) = {} THEN "admitted" ELSE "rejected"]
    /\ UNCHANGED << job_rows, runnerPc, cancels, notStartVars >>

\* start_scrape from db.add(job) on: the row is committed as pending and
\* run_scrape_job is queued for it
StartCreate(r) ==
    /\ startPc[r] = "admitted"
    /\ LET id == CHOOSE j \in JobIds :
                    /\ job_rows[j] = NoJob
                    /\ \A k \in JobIds : job_rows[k] = NoJob => j <= k
       IN  /\ job_rows' = [job_rows EXCEPT ![id] = PENDING]
           /\ runnerPc' = [runnerPc EXCEPT ![id] = "queued"]
    /\ startPc' = [startPc EXCEPT ![r] = "created"]
    /\ UNCHANGED << cancels, notStartVars >>

\* run_scrape_job up to its first commit: job.status = RUNNING is written
\* whatever the row held
RunnerStart(j) ==
    /\ runnerPc[j] = "queued"
    /\ job_rows' = [job_rows EXCEPT ![j] = RUNNING]
    /\ runnerPc' = [runnerPc EXCEPT ![j] = "engine"]
    /\ UNCHANGED << startPc, cancels, notStartVars >>

\* run_scrape_job after engine.run(): completed, or failed in the handler
RunnerFinish(j) ==
    /\ runnerPc[j] = "engine"
    /\ \E status \in {COMPLETED, FAILED} :
         job_rows' = [job_rows EXCEPT ![j] = status]
    /\ runnerPc' = [runnerPc EXCEPT ![j] = "done"]
    /\ UNCHANGED << startPc, cancels, notStartVars >>

\* cancel_job: the row of a pending or running job is set to cancelled;
\* nothing reaches run_scrape_job or its engine
CancelJob(j) ==
    /\ cancels < MaxCancels
    /\ job_rows[j] \in {PENDING, RUNNING}
    /\ job_rows' = [job_rows EXCEPT ![j] = CANCELLED]
    /\ cancels' = cancels + 1
    /\ UNCHANGED << startPc, runnerPc, notStartVars >>

\* the start requests that are going to be made
StartInputs ==
    /\ job_rows = [j \in JobIds |-> NoJob]
    /\ startPc = [r \in StartRequests |-> "request"]
    /\ runnerPc = [j \in JobIds |-> "none"]
    /\ cancels = 0

StartNext ==
    \/ \E r \in StartRequests : StartCheck(r) \/ StartCreate(r)
    \/ \E j \in JobIds : RunnerStart(j) \/ RunnerFinish(j) \/ CancelJob(j)

\* C30: at most one job of the project is pending or running at any time,
\* also with two start requests under way at once and with a start after the
\* cancel_job of a job whose engine still runs.
C30_OneActiveJobPerProject == Cardinality(Active(job_rows)) <= 1

-----------------------------------------------------------------------------
(* State after construction: the job is created, nothing else has begun *)

Init ==
    /\ JobCreated
    /\ AuthIdle
    /\ RobotsIdle
    /\ CleanIdle
    /\ ChunkIdle
    /\ StartIdle

\* a job on the tree-shaped site with the widest limits
Configured ==
    /\ JobCreated
    /\ site = Tree
    /\ max_pages = MaxPagesBound
    /\ max_depth = MaxDepthBound

AuthInit == Configured /\ AuthInputs /\ RobotsIdle /\ CleanIdle /\ ChunkIdle /\ StartIdle

AuthSpec == AuthInit /\ [][AuthNext]_vars

RobotsInit == Configured /\ AuthIdle /\ RobotsInputs /\ CleanIdle /\ ChunkIdle /\ StartIdle

RobotsSpec == RobotsInit /\ [][RobotsNext]_vars

CleanInit == Configured /\ AuthIdle /\ RobotsIdle /\ CleanInputs /\ ChunkIdle /\ StartIdle

CleanSpec == CleanInit /\ [][CleanNext]_vars

ChunkInit == Configured /\ AuthIdle /\ RobotsIdle /\ CleanIdle /\ ChunkInputs /\ StartIdle

ChunkSpec == ChunkInit /\ [][ChunkNext]_vars

StartInit == Configured /\ AuthIdle /\ RobotsIdle /\ CleanIdle /\ ChunkIdle /\ StartInputs

StartSpec == StartInit /\ [][StartNext]_vars

-----------------------------------------------------------------------------
(* db.commit() of the session of run_scrape_job: the UPDATE carries the     *)
(* status only when job.status differs from what the session last wrote.   *)

CommitStatus(new) ==
    /\ job_status' = new
    /\ job_synced' = new
    /\ db_status' = IF new # job_synced THEN new ELSE db_status

-----------------------------------------------------------------------------
(* run_scrape_job and ScraperEngine.run *)

\* run_scrape_job: load the job and the project, set RUNNING, commit
JobStart ==
    /\ runPc = "queued"
    /\ runPc' = "setup"
    /\ job_synced' = RUNNING
    /\ job_status' = RUNNING
    /\ db_status' = RUNNING
    /\ UNCHANGED << configVars, unitVars, storeVars, faultVars, cancelled, queueVars, visited_urls, workerVars,
                    counterVars, pages, historyVars, endpointVars >>

\* ScraperEngine.run: after _setup_auth, seed the frontier, start the workers,
\* and wait in url_queue.join()
RunSetup ==
    /\ runPc = "setup"
    /\ runPc' = "join"
    /\ url_queue' = Append(url_queue, << base_url, 0 >>)
    /\ unfinished' = unfinished + 1
    /\ joinWoken' = FALSE
    /\ wpc' = [w \in Workers |-> "get"]
    /\ enqueued' = [enqueued EXCEPT ![base_url] = @ + 1]
    /\ UNCHANGED << configVars, unitVars, storeVars, faultVars, jobVars, cancelled, visited_urls, item, wcancel,
                    counterVars, pages, fetched, fetch_errors, delay_owed,
                    endpointVars >>

\* a task that has not finished yet
Live(w) == wpc[w] \notin {"none", "exited", "stopped", "dead"}

\* ScraperEngine.run: join() has returned; cancel the workers, leave the client
RunJoinReturn ==
    /\ runPc = "join"
    /\ joinWoken
    /\ runPc' = "closing"
    /\ wcancel' = [w \in Workers |-> Live(w)]
    /\ UNCHANGED << configVars, unitVars, storeVars, faultVars, jobVars, cancelled, queueVars, visited_urls, wpc,
                    item, counterVars, pages, historyVars, endpointVars >>

\* ScraperEngine.run: job.status = COMPLETED, commit
RunComplete ==
    /\ runPc = "closing"
    /\ runPc' = "returned"
    /\ CommitStatus(COMPLETED)
    /\ UNCHANGED << configVars, unitVars, storeVars, faultVars, cancelled, queueVars, visited_urls, workerVars,
                    counterVars, pages, historyVars, endpointVars >>

\* ScraperEngine.run: the commit of COMPLETED raises a storage error; the
\* handler sets FAILED, commits and re-raises
RunFail ==
    /\ runPc = "closing"
    /\ runPc' = "raised"
    /\ CommitStatus(FAILED)
    /\ UNCHANGED << configVars, unitVars, storeVars, faultVars, cancelled, queueVars, visited_urls, workerVars,
                    counterVars, pages, historyVars, endpointVars >>

\* run_scrape_job: engine.run() returned; set COMPLETED, commit
JobFinish ==
    /\ runPc = "returned"
    /\ runPc' = "done"
    /\ CommitStatus(COMPLETED)
    /\ UNCHANGED << configVars, unitVars, storeVars, faultVars, cancelled, queueVars, visited_urls, workerVars,
                    counterVars, pages, historyVars, endpointVars >>

\* run_scrape_job: engine.run() raised; set FAILED, commit
JobFinishFailed ==
    /\ runPc = "raised"
    /\ runPc' = "done"
    /\ CommitStatus(FAILED)
    /\ UNCHANGED << configVars, unitVars, storeVars, faultVars, cancelled, queueVars, visited_urls, workerVars,
                    counterVars, pages, historyVars, endpointVars >>

\* ScraperEngine.cancel, callable while the engine runs
EngineCancel ==
    /\ runPc \in {"setup", "join", "closing"}
    /\ ~cancelled
    /\ cancelled' = TRUE
    /\ UNCHANGED << configVars, unitVars, storeVars, faultVars, jobVars, runPc, queueVars, visited_urls, workerVars,
                    counterVars, pages, historyVars, endpointVars >>

-----------------------------------------------------------------------------
(* ScraperEngine._worker *)

\* a worker takes normal steps until worker.cancel() reaches it
Runs(w, pc) == wpc[w] = pc /\ ~wcancel[w]

\* mutant: reaching zero does not release join()
ReleasedNever(n) == joinWoken

\* url_queue.task_done() reaching zero sets _finished, which releases join()
Released(n) == joinWoken \/ n = 0

\* mutant: the worker never looks at the flag
CancelObservedNever == FALSE

\* `if self._cancelled` at the top of the worker's inner try
CancelObserved == cancelled

\* mutant: the visited check is dropped
AlreadyVisitedNever(url) == FALSE

\* `if url in self.visited_urls`
AlreadyVisited(url) == url \in visited_urls

\* mutant: the ceiling is compared off by one
OverLimitLate(seen) == Cardinality(seen) > max_pages + 1

\* `if len(self.visited_urls) > self.config.get("max_pages", 100)`
OverLimit(seen) == Cardinality(seen) > max_pages

\* mutant: links of a page at max_depth are followed too
MayFollowInclusive(depth) == depth <= max_depth

\* `if depth < self.config.get("max_depth", 3)`
MayFollow(depth) == depth < max_depth

\* mutant: every link is put on the frontier
UnvisitedAny(links) == links

\* `if link not in self.visited_urls`
Unvisited(links) == links \ visited_urls

\* the except handler of the worker, up to its `await self.db.commit()`
RecordFailure(w) ==
    /\ pages_failed' = pages_failed + 1
    /\ error_log' = Append(error_log, item[w][1])
    /\ wpc' = [wpc EXCEPT ![w] = "failed"]
    /\ UNCHANGED item

\* the single task_done() of the finally clause, then the next iteration;
\* at zero it raises ValueError, which ends the worker task
FinallyTaskDone(w, next) ==
    /\ item' = [item EXCEPT ![w] = None]
    /\ IF unfinished > 0
       THEN /\ unfinished' = unfinished - 1
            /\ joinWoken' = Released(unfinished - 1)
            /\ wpc' = [wpc EXCEPT ![w] = next]
       ELSE /\ UNCHANGED << unfinished, joinWoken >>
            /\ wpc' = [wpc EXCEPT ![w] = "dead"]

\* `self.url_queue.task_done(); continue` inside the try, then the
\* task_done() of the finally clause
SkipEntry(w) ==
    CASE unfinished >= 2 ->
           /\ unfinished' = unfinished - 2
           /\ joinWoken' = Released(unfinished - 2)
           /\ wpc' = [wpc EXCEPT ![w] = "get"]
           /\ item' = [item EXCEPT ![w] = None]
           /\ UNCHANGED counterVars
      [] unfinished = 1 ->
           \* the second call raises ValueError out of the finally clause
           /\ unfinished' = 0
           /\ joinWoken' = TRUE
           /\ wpc' = [wpc EXCEPT ![w] = "dead"]
           /\ item' = [item EXCEPT ![w] = None]
           /\ UNCHANGED counterVars
      [] OTHER ->
           \* the first call raises ValueError inside the try: except handler
           /\ RecordFailure(w)
           /\ UNCHANGED << unfinished, joinWoken, pages_discovered, pages_scraped >>

\* url_queue.get() returns an entry
Dequeue(w) ==
    /\ Runs(w, "get")
    /\ url_queue # << >>
    /\ item' = [item EXCEPT ![w] = Head(url_queue)]
    /\ url_queue' = Tail(url_queue)
    /\ wpc' = [wpc EXCEPT ![w] = "got"]
    /\ UNCHANGED << configVars, unitVars, storeVars, faultVars, jobVars, runPc, cancelled, unfinished, joinWoken,
                    visited_urls, wcancel, counterVars, pages, historyVars, endpointVars >>

\* wait_for(url_queue.get(), 10.0) times out on an empty queue: continue
GetTimeout(w) ==
    /\ Runs(w, "get")
    /\ url_queue = << >>
    /\ UNCHANGED vars

\* the entry is dropped because the cancellation flag is set: break
WorkerBreak(w) ==
    /\ Runs(w, "got")
    /\ CancelObserved
    /\ FinallyTaskDone(w, "exited")
    /\ UNCHANGED << configVars, unitVars, storeVars, faultVars, jobVars, runPc, cancelled, url_queue, visited_urls,
                    wcancel, counterVars, pages, historyVars, endpointVars >>

\* the entry is skipped because its url was visited before
SkipVisited(w) ==
    /\ Runs(w, "got")
    /\ ~CancelObserved
    /\ AlreadyVisited(item[w][1])
    /\ SkipEntry(w)
    /\ UNCHANGED << configVars, unitVars, storeVars, faultVars, jobVars, runPc, cancelled, url_queue, visited_urls,
                    wcancel, pages, historyVars, endpointVars >>

\* the url is added to visited_urls and skipped: the page ceiling is passed
SkipLimit(w) ==
    /\ Runs(w, "got")
    /\ ~CancelObserved
    /\ ~AlreadyVisited(item[w][1])
    /\ visited_urls' = visited_urls \cup {item[w][1]}
    /\ OverLimit(visited_urls')
    /\ SkipEntry(w)
    /\ UNCHANGED << configVars, unitVars, storeVars, faultVars, jobVars, runPc, cancelled, url_queue,
                    wcancel, pages, historyVars, endpointVars >>

\* the url is claimed; _scrape_page counts it discovered and commits
Claim(w) ==
    /\ Runs(w, "got")
    /\ ~CancelObserved
    /\ ~AlreadyVisited(item[w][1])
    /\ visited_urls' = visited_urls \cup {item[w][1]}
    /\ ~OverLimit(visited_urls')
    /\ pages_discovered' = pages_discovered + 1
    /\ wpc' = [wpc EXCEPT ![w] = "discovered"]
    /\ UNCHANGED << configVars, unitVars, storeVars, faultVars, jobVars, runPc, cancelled, queueVars, item, wcancel,
                    pages_scraped, pages_failed, error_log, pages, historyVars,
                    endpointVars >>

\* _scrape_page: publish page_discovered, call client.get(url)
StartFetch(w) ==
    /\ Runs(w, "discovered")
    /\ fetched' = [fetched EXCEPT ![item[w][1]] = @ + 1]
    /\ delay_owed' = [delay_owed EXCEPT ![w] = TRUE]
    /\ wpc' = [wpc EXCEPT ![w] = "fetch"]
    /\ UNCHANGED << configVars, unitVars, storeVars, faultVars, jobVars, runPc, cancelled, queueVars, visited_urls,
                    item, wcancel, counterVars, pages, fetch_errors, enqueued,
                    endpointVars >>

\* client.get raises, or raise_for_status raises on a failure status
FetchError(w) ==
    /\ Runs(w, "fetch")
    /\ Cardinality(fetch_errors) < MaxFetchErrors
    /\ fetch_errors' = fetch_errors \cup {item[w][1]}
    /\ RecordFailure(w)
    /\ UNCHANGED << configVars, unitVars, storeVars, faultVars, jobVars, runPc, cancelled, queueVars, visited_urls,
                    wcancel, pages_discovered, pages_scraped, pages, fetched,
                    enqueued, delay_owed, endpointVars >>

\* mutant: every response is taken for an HTML document
IsHtmlAny(url) == TRUE

\* `"text/html" not in content_type.lower()` does not hold of the response
IsHtml(url) == url \notin site.nonhtml

\* the response is not text/html: _scrape_page returns, the worker sleeps
FetchNonHtml(w) ==
    /\ Runs(w, "fetch")
    /\ ~IsHtml(item[w][1])
    /\ wpc' = [wpc EXCEPT ![w] = "sleep"]
    /\ UNCHANGED << configVars, unitVars, storeVars, faultVars, jobVars, runPc, cancelled, queueVars, visited_urls,
                    item, wcancel, counterVars, pages, historyVars, endpointVars >>

\* the response is HTML: extract, look up the Page by url_hash
FetchHtml(w) ==
    /\ Runs(w, "fetch")
    /\ IsHtml(item[w][1])
    /\ wpc' = [wpc EXCEPT ![w] = "lookup"]
    /\ UNCHANGED << configVars, unitVars, storeVars, faultVars, jobVars, runPc, cancelled, queueVars, visited_urls,
                    item, wcancel, counterVars, pages, historyVars, endpointVars >>

\* Page(url=url, ..., depth=depth) for a url that has no Page yet
NewPages(url, depth) ==
    IF \E p \in pages : p.url = url THEN {} ELSE {[url |-> url, depth |-> depth]}

\* _scrape_page: insert the Page unless one exists, commit, count it scraped
StorePage(w) ==
    /\ Runs(w, "lookup")
    /\ pages' = pages \cup NewPages(item[w][1], item[w][2])
    /\ pages_scraped' = pages_scraped + 1
    /\ wpc' = [wpc EXCEPT ![w] = "scraped"]
    /\ UNCHANGED << configVars, unitVars, storeVars, faultVars, jobVars, runPc, cancelled, queueVars, visited_urls,
                    item, wcancel, pages_discovered, pages_failed, error_log,
                    historyVars, endpointVars >>

\* Crawler.is_allowed
IsAllowed(url) ==
    \/ ~respect_robots
    \/ robots_rules = {}
    \/ url \notin robots_rules

\* mutant: the domain of a link is not looked at
SameDomainAny(url) == TRUE

\* `parsed.netloc != self.base_domain` does not hold of the link
SameDomain(url) == url \notin site.external

\* Crawler._should_include; the urls of the sites match none of the default
\* exclusions and the projects have no include or exclude patterns
ShouldInclude(url) ==
    /\ (~follow_external => SameDomain(url))
    /\ IsAllowed(url)

\* Crawler.extract_links: the set of the page's links that pass the filters
ExtractLinks(url) == {l \in site.links[url] : ShouldInclude(l)}

\* the entries put for the links of a page, in iteration order q
Entries(q, depth) == [i \in DOMAIN q |-> << q[i], depth + 1 >>]

\* _scrape_page: publish page_scraped, put the unvisited links at depth + 1
EnqueueLinks(w) ==
    /\ Runs(w, "scraped")
    /\ IF MayFollow(item[w][2])
       THEN \E q \in Orders(Unvisited(ExtractLinks(item[w][1]))) :
               /\ url_queue' = url_queue \o Entries(q, item[w][2])
               /\ unfinished' = unfinished + Len(q)
               /\ enqueued' = [u \in URLs |->
                                 IF \E i \in DOMAIN q : q[i] = u
                                 THEN enqueued[u] + 1 ELSE enqueued[u]]
       ELSE UNCHANGED << url_queue, unfinished, enqueued >>
    /\ wpc' = [wpc EXCEPT ![w] = "sleep"]
    /\ UNCHANGED << configVars, unitVars, storeVars, faultVars, jobVars, runPc, cancelled, joinWoken, visited_urls,
                    item, wcancel, counterVars, pages, fetched, fetch_errors,
                    delay_owed, endpointVars >>

\* the rate-limit sleep is over: finally task_done(), next iteration
SleepDone(w) ==
    /\ Runs(w, "sleep")
    /\ delay_owed' = [delay_owed EXCEPT ![w] = FALSE]
    /\ FinallyTaskDone(w, "get")
    /\ UNCHANGED << configVars, unitVars, storeVars, faultVars, jobVars, runPc, cancelled, url_queue, visited_urls,
                    wcancel, counterVars, pages, fetched, fetch_errors, enqueued,
                    endpointVars >>

\* the except handler after its commit: publish page_failed, finally
\* task_done(), next iteration
FailureDone(w) ==
    /\ Runs(w, "failed")
    /\ FinallyTaskDone(w, "get")
    /\ UNCHANGED << configVars, unitVars, storeVars, faultVars, jobVars, runPc, cancelled, url_queue, visited_urls,
                    wcancel, counterVars, pages, historyVars, endpointVars >>

\* CancelledError is thrown into a cancelled worker at its await: a worker
\* inside the inner try runs the finally clause, then the task ends
WorkerCancelled(w) ==
    /\ wcancel[w]
    /\ wcancel' = [wcancel EXCEPT ![w] = FALSE]
    /\ IF wpc[w] = "get"
       THEN /\ wpc' = [wpc EXCEPT ![w] = "stopped"]
            /\ UNCHANGED << item, unfinished, joinWoken >>
       ELSE FinallyTaskDone(w, "stopped")
    /\ UNCHANGED << configVars, unitVars, storeVars, faultVars, jobVars, runPc, cancelled, url_queue, visited_urls,
                    counterVars, pages, historyVars, endpointVars >>

\* the steps of a worker that has not seen the cancellation flag
Crawl(w) ==
    \/ Dequeue(w)
    \/ GetTimeout(w)
    \/ SkipVisited(w)
    \/ SkipLimit(w)
    \/ Claim(w)
    \/ StartFetch(w)
    \/ FetchError(w)
    \/ FetchNonHtml(w)
    \/ FetchHtml(w)
    \/ StorePage(w)
    \/ EnqueueLinks(w)
    \/ SleepDone(w)
    \/ FailureDone(w)
    \/ WorkerCancelled(w)

Worker(w) ==
    \/ WorkerBreak(w)
    \/ Crawl(w)

-----------------------------------------------------------------------------
(* Storage errors and event sink errors inside a worker *)

\* an exception raised inside the worker's except handler: the finally clause
\* calls task_done(), and the exception ends the worker task
HandlerRaises(w) == FinallyTaskDone(w, "dead")

\* the commit of pages_discovered in _scrape_page raises: except handler
DiscoveredCommitError(w) ==
    /\ Runs(w, "discovered")
    /\ storage_errors < MaxStorageErrors
    /\ storage_errors' = storage_errors + 1
    /\ RecordFailure(w)
    /\ UNCHANGED << configVars, unitVars, storeVars, sink_errors, jobVars, runPc, cancelled,
                    queueVars, visited_urls, wcancel, pages_discovered,
                    pages_scraped, pages, historyVars, endpointVars >>

\* the commit of pages_scraped in _scrape_page raises: except handler
ScrapedCommitError(w) ==
    /\ Runs(w, "scraped")
    /\ storage_errors < MaxStorageErrors
    /\ storage_errors' = storage_errors + 1
    /\ RecordFailure(w)
    /\ UNCHANGED << configVars, unitVars, storeVars, sink_errors, jobVars, runPc, cancelled,
                    queueVars, visited_urls, wcancel, pages_discovered,
                    pages_scraped, pages, historyVars, endpointVars >>

\* the commit of pages_failed and error_log in the except handler raises
FailureCommitError(w) ==
    /\ Runs(w, "failed")
    /\ storage_errors < MaxStorageErrors
    /\ storage_errors' = storage_errors + 1
    /\ HandlerRaises(w)
    /\ UNCHANGED << configVars, unitVars, storeVars, sink_errors, jobVars, runPc, cancelled,
                    url_queue, visited_urls, wcancel, counterVars, pages,
                    historyVars, endpointVars >>

\* on_progress raises on the page_discovered event: except handler
DiscoveredSinkError(w) ==
    /\ Runs(w, "discovered")
    /\ Cardinality(sink_errors) < MaxSinkErrors
    /\ sink_errors' = sink_errors \cup {item[w][1]}
    /\ RecordFailure(w)
    /\ UNCHANGED << configVars, unitVars, storeVars, storage_errors, jobVars, runPc,
                    cancelled, queueVars, visited_urls, wcancel, pages_discovered,
                    pages_scraped, pages, historyVars, endpointVars >>

\* on_progress raises on the page_scraped event: except handler
ScrapedSinkError(w) ==
    /\ Runs(w, "scraped")
    /\ Cardinality(sink_errors) < MaxSinkErrors
    /\ sink_errors' = sink_errors \cup {item[w][1]}
    /\ RecordFailure(w)
    /\ UNCHANGED << configVars, unitVars, storeVars, storage_errors, jobVars, runPc,
                    cancelled, queueVars, visited_urls, wcancel, pages_discovered,
                    pages_scraped, pages, historyVars, endpointVars >>

\* on_progress raises on the page_failed event, inside the except handler
FailedSinkError(w) ==
    /\ Runs(w, "failed")
    /\ Cardinality(sink_errors) < MaxSinkErrors
    /\ sink_errors' = sink_errors \cup {item[w][1]}
    /\ HandlerRaises(w)
    /\ UNCHANGED << configVars, unitVars, storeVars, storage_errors, jobVars, runPc,
                    cancelled, url_queue, visited_urls, wcancel, counterVars,
                    pages, historyVars, endpointVars >>

WorkerFault(w) ==
    \/ DiscoveredCommitError(w)
    \/ ScrapedCommitError(w)
    \/ FailureCommitError(w)
    \/ DiscoveredSinkError(w)
    \/ ScrapedSinkError(w)
    \/ FailedSinkError(w)

-----------------------------------------------------------------------------
(* cancel_job *)

\* cancel_job: load the job
CancelJobLoad ==
    /\ cancelPc = "idle"
    /\ cancelReqs < MaxCancelRequests
    /\ cancelPc' = "loaded"
    /\ cancelSeen' = db_status
    /\ cancelReqs' = cancelReqs + 1
    /\ UNCHANGED << configVars, unitVars, storeVars, faultVars, jobVars, runPc, cancelled, queueVars, visited_urls,
                    workerVars, counterVars, pages, historyVars >>

\* cancel_job: a status other than PENDING, RUNNING is answered 400;
\* else job.status = CANCELLED, commit
CancelJobCommit ==
    /\ cancelPc = "loaded"
    /\ cancelPc' = "idle"
    /\ db_status' = IF cancelSeen \in {PENDING, RUNNING} THEN CANCELLED ELSE db_status
    /\ UNCHANGED << configVars, unitVars, storeVars, faultVars, job_status, job_synced, runPc, cancelled, queueVars,
                    visited_urls, workerVars, counterVars, pages, historyVars,
                    cancelSeen, cancelReqs >>

-----------------------------------------------------------------------------
(* ScraperEngine._scrape_page, lines 185-264, for one url across jobs *)

engineVars == << configVars, unitVars, faultVars, jobVars, runPc, cancelled, queueVars, visited_urls,
                 workerVars, counterVars, pages, historyVars, endpointVars >>

\* the page's content is edited on the site
SiteEdit ==
    /\ \E m \in Markdowns \ {site_markdown} : site_markdown' = m
    /\ UNCHANGED << engineVars, page_rows, version_rows, now, spc, extracted,
                    existing_page, crawl_log, crawl_failed, overlapped >>

\* client.get returns the HTML document and the extractor converts it
Extract(j) ==
    /\ spc[j] = "idle"
    /\ Len(crawl_log) < MaxCrawls
    /\ spc' = [spc EXCEPT ![j] = "extracted"]
    /\ extracted' = [extracted EXCEPT ![j] = site_markdown]
    /\ crawl_log' = Append(crawl_log, site_markdown)
    /\ overlapped' = (overlapped \/ \E k \in ScrapeJobs : k # j /\ spc[k] # "idle")
    /\ UNCHANGED << engineVars, site_markdown, page_rows, version_rows, now,
                    existing_page, crawl_failed >>

\* select(Page).where(project_id, url_hash), scalar_one_or_none(): the row,
\* None, or MultipleResultsFound, which the worker's handler records
FindPage(j) ==
    /\ spc[j] = "extracted"
    /\ CASE Len(page_rows) = 0 ->
              /\ existing_page' = [existing_page EXCEPT ![j] = NoPage]
              /\ spc' = [spc EXCEPT ![j] = "found"]
              /\ UNCHANGED crawl_failed
         [] Len(page_rows) = 1 ->
              /\ existing_page' = [existing_page EXCEPT ![j] =
                    [id |-> 1, content_markdown |-> page_rows[1].content_markdown]]
              /\ spc' = [spc EXCEPT ![j] = "found"]
              /\ UNCHANGED crawl_failed
         [] OTHER ->
              /\ spc' = [spc EXCEPT ![j] = "idle"]
              /\ crawl_failed' = crawl_failed + 1
              /\ UNCHANGED existing_page
    /\ UNCHANGED << engineVars, site_markdown, page_rows, version_rows, now,
                    extracted, crawl_log, overlapped >>

\* mutant: every re-crawl counts as a change
ContentChangedAlways(old, new) == TRUE

\* `new_content_hash != old_content_hash`, the SHA-256 of the two markdowns
ContentChanged(old, new) == old # new

\* `content_markdown=extracted["markdown"]` of the PageVersion
SnapshotOf(old, new) == new

\* len(existing_page.versions)
VersionCount(id) ==
    Cardinality({i \in DOMAIN version_rows : version_rows[i].page_id = id})

\* the Page exists and its markdown is the extracted one: nothing is added
\* or modified, the commit writes nothing
KeepPage(j) ==
    /\ spc[j] = "found"
    /\ existing_page[j] # NoPage
    /\ ~ContentChanged(existing_page[j].content_markdown, extracted[j])
    /\ spc' = [spc EXCEPT ![j] = "idle"]
    /\ UNCHANGED << engineVars, site_markdown, page_rows, version_rows, now,
                    extracted, existing_page, crawl_log, crawl_failed, overlapped >>

\* the content changed: existing_page.versions is a lazy relationship of a
\* row loaded through an AsyncSession, and reading it outside an awaited call
\* raises MissingGreenlet, which the worker's handler records
LoadVersionsRaises(j) ==
    /\ spc[j] = "found"
    /\ existing_page[j] # NoPage
    /\ ContentChanged(existing_page[j].content_markdown, extracted[j])
    /\ spc' = [spc EXCEPT ![j] = "idle"]
    /\ crawl_failed' = crawl_failed + 1
    /\ UNCHANGED << engineVars, site_markdown, page_rows, version_rows, now,
                    extracted, existing_page, crawl_log, overlapped >>

\* the content changed and the versions are at hand: add a PageVersion,
\* overwrite the Page's content, commit
UpdatePage(j) ==
    /\ spc[j] = "found"
    /\ existing_page[j] # NoPage
    /\ ContentChanged(existing_page[j].content_markdown, extracted[j])
    /\ version_rows' = Append(version_rows,
          [page_id |-> existing_page[j].id,
           content_markdown |->
               SnapshotOf(existing_page[j].content_markdown, extracted[j]),
           version_number |-> VersionCount(existing_page[j].id) + 1])
    /\ page_rows' = [page_rows EXCEPT ![existing_page[j].id] =
          [@ EXCEPT !.content_markdown = extracted[j], !.updated_at = now]]
    /\ now' = now + 1
    /\ spc' = [spc EXCEPT ![j] = "idle"]
    /\ UNCHANGED << engineVars, site_markdown, extracted, existing_page,
                    crawl_log, crawl_failed, overlapped >>

\* no Page was found: add one, flush, commit
InsertPage(j) ==
    /\ spc[j] = "found"
    /\ existing_page[j] = NoPage
    /\ page_rows' = Append(page_rows,
          [content_markdown |-> extracted[j], updated_at |-> now,
           scrape_job_id |-> j])
    /\ now' = now + 1
    /\ spc' = [spc EXCEPT ![j] = "idle"]
    /\ UNCHANGED << engineVars, site_markdown, version_rows, extracted,
                    existing_page, crawl_log, crawl_failed, overlapped >>

ScrapePage(j) ==
    \/ Extract(j)
    \/ FindPage(j)
    \/ KeepPage(j)
    \/ LoadVersionsRaises(j)
    \/ UpdatePage(j)
    \/ InsertPage(j)

-----------------------------------------------------------------------------

\* the crawl of one job: run_scrape_job, the engine and its workers
Next ==
    \/ JobStart
    \/ RunSetup
    \/ RunJoinReturn
    \/ RunComplete
    \/ RunFail
    \/ JobFinish
    \/ JobFinishFailed
    \/ EngineCancel
    \/ \E w \in Workers : Worker(w)

Spec == Init /\ [][Next]_vars

\* the crawl of a site on which every worker path is taken, together with
\* cancel_job requests for the job
JobInit ==
    /\ Init
    /\ site = Mesh
    /\ max_pages = 4
    /\ max_depth = 2

JobNext ==
    \/ Next
    \/ CancelJobLoad
    \/ CancelJobCommit

JobSpec == JobInit /\ [][JobNext]_vars

\* the crawl of one job without cancellation and without a storage error;
\* the event loop runs every task that is ready, and every fetch returns
LiveNext ==
    \/ JobStart
    \/ RunSetup
    \/ RunJoinReturn
    \/ RunComplete
    \/ JobFinish
    \/ \E w \in Workers : Crawl(w)

\* the crawls that reach every page of Mesh and Tree, under every ceiling
LiveInit ==
    /\ Init
    /\ site \in {Mesh, Tree}
    /\ max_depth = MaxDepthBound

LiveSpec ==
    /\ LiveInit
    /\ [][LiveNext]_vars
    /\ WF_vars(JobStart)
    /\ WF_vars(RunSetup)
    /\ WF_vars(RunJoinReturn)
    /\ WF_vars(RunComplete)
    /\ WF_vars(JobFinish)
    /\ \A w \in Workers : WF_vars(Crawl(w))

\* the crawl of a site on which every worker path is taken, without
\* cancellation, in which commits and on_progress calls of the workers raise
FaultInit == JobInit

FaultNext ==
    \/ LiveNext
    \/ \E w \in Workers : WorkerFault(w)

FaultSpec == FaultInit /\ [][FaultNext]_vars

\* the crawls of one url by the jobs of a project, while the site is edited
RecrawlNext ==
    \/ SiteEdit
    \/ \E j \in ScrapeJobs : ScrapePage(j)

RecrawlInit ==
    /\ Init
    /\ site = Tree
    /\ max_pages = MaxPagesBound
    /\ max_depth = MaxDepthBound

RecrawlSpec == RecrawlInit /\ [][RecrawlNext]_vars

-----------------------------------------------------------------------------
(* Quantities the properties speak about *)

RECURSIVE SumOver(_, _)
SumOver(f, S) == IF S = {} THEN 0
                 ELSE LET u == CHOOSE x \in S : TRUE
                      IN f[u] + SumOver(f, S \ {u})

\* the number of client.get calls of the job
TotalFetched == SumOver(fetched, URLs)

\* how often url sits in the frontier queue
Queued(url) == Cardinality({i \in DOMAIN url_queue : url_queue[i][1] = url})

\* how often url has been dequeued by a worker
Dequeued(url) == enqueued[url] - Queued(url)

\* how often url occurs in a sequence of urls
Count(seq, url) == Cardinality({i \in DOMAIN seq : seq[i] = url})

\* no worker holds a dequeued entry
NoneInProcess == \A w \in Workers : item[w] = None

\* ScraperEngine.run has finished, by returning or by raising
RunFinished == runPc \in {"returned", "raised", "done"}

\* no crawl of the url is under way
AllIdle == \A j \in ScrapeJobs : spc[j] = "idle"

\* the number of crawls that extracted another markdown than the crawl before
Changes(log) == Cardinality({i \in 2 .. Len(log) : log[i] # log[i - 1]})

-----------------------------------------------------------------------------
(* Properties *)

\* C1: within one job no url is fetched more than once, however often it was
\* put on the frontier and dequeued.
C1_FetchedAtMostOnce == \A u \in URLs : fetched[u] <= 1

\* C1 witness: a url was dequeued twice, all dequeued entries are processed,
\* and the url was fetched once.
C1_Witness ==
    \E u \in URLs : Dequeued(u) >= 2 /\ fetched[u] = 1 /\ NoneInProcess

\* C2: ScraperEngine.run gets past url_queue.join() only when no entry is
\* queued and no dequeued entry is still held by a worker.
C2_JoinWaitsForAllWork ==
    [][(runPc = "join" /\ runPc' = "closing")
          => (url_queue = << >> /\ NoneInProcess)]_vars

\* C3: the stored status moves only pending -> running -> {completed, failed,
\* cancelled} (or pending -> cancelled by a cancel request), and never
\* changes once it has left running.
C3_StatusProtocol ==
    [][\/ db_status' = db_status
       \/ db_status = PENDING /\ db_status' \in {RUNNING, CANCELLED}
       \/ db_status = RUNNING /\ db_status' \in {COMPLETED, FAILED, CANCELLED}]_vars

\* C4: when the cancellation flag was set, run() finishes with the job's
\* status cancelled.
C4_CancelledRunEndsCancelled ==
    (cancelled /\ RunFinished) => db_status = CANCELLED

\* C5: once the cancellation flag is set the run cannot get stuck: until
\* run() has finished, some task can always take a step that changes the
\* state (an idle worker's dequeue timeout changes nothing).
C5_CancelledRunNeverStuck ==
    cancelled => (RunFinished \/ ENABLED <<Next>>_vars)

\* C6 as stated: once the cancellation flag is set, no client.get is called.
C6_NoFetchStartsAfterCancel ==
    [][cancelled => fetched' = fetched]_vars

\* C6 as amended: every fetch is of an entry that a worker claimed (counted in
\* pages_discovered) before, and once the cancellation flag is set no worker
\* claims an entry: visited_urls and pages_discovered stay as they are.
C6_NoClaimAfterCancel ==
    [][/\ TotalFetched' <= pages_discovered'
       /\ cancelled => /\ pages_discovered' = pages_discovered
                       /\ visited_urls' = visited_urls]_vars

\* C6 witness: with the flag set, one worker has dropped its entry and left
\* the loop while another one, which claimed its entry before, is fetching.
C6_Witness ==
    /\ cancelled
    /\ \E w \in Workers : wpc[w] = "exited"
    /\ \E w \in Workers : wpc[w] = "fetch"

\* C7: a failed fetch is isolated: the step that handles it adds one to
\* pages_failed and appends one record for the url, error_log never holds a
\* second record for that url, and the worker that handled it goes back to
\* the top of its loop (unless run() has cancelled it).
C7_FailedFetchIsolated ==
    [][/\ \A w \in Workers :
            (wpc[w] = "fetch" /\ wpc'[w] = "failed")
               => /\ pages_failed' = pages_failed + 1
                  /\ error_log' = Append(error_log, item[w][1])
       /\ \A u \in fetch_errors' : Count(error_log', u) = 1
       /\ \A w \in Workers :
            (wpc[w] = "failed" /\ item[w][1] \in fetch_errors
                /\ ~wcancel[w] /\ wpc'[w] # "failed")
               => wpc'[w] = "get"]_vars

\* C11 as stated: every url is put on the frontier at most once per job.
C11_EnqueuedAtMostOnce == \A u \in URLs : enqueued[u] <= 1

\* C11 as amended: a url is never put on the frontier once it is in
\* visited_urls; until a worker has dequeued it, every page that links to it
\* puts it again.
C11_NoEnqueueOnceVisited ==
    [][\A u \in URLs : enqueued'[u] > enqueued[u] => u \notin visited_urls]_vars

\* C11 witness: two pages that link to c were scraped and their links were
\* followed, and c was put once: the second page found c visited.
C11_Witness ==
    /\ site = Mesh
    /\ max_depth = 2
    /\ \A u \in {"a", "b"} :
          /\ \E p \in pages : p.url = u
          /\ \A w \in Workers : item[w] = None \/ item[w][1] # u
    /\ enqueued["c"] = 1

\* C12: a crawl that finds the Page and extracts the markdown the Page holds
\* adds no PageVersion and leaves every field of every Page row, updated_at
\* included, as it is.
C12_IdenticalRecrawlChangesNothing ==
    [][\A j \in ScrapeJobs :
          (/\ spc[j] = "found"
           /\ existing_page[j] # NoPage
           /\ existing_page[j].content_markdown = extracted[j]
           /\ spc'[j] # "found")
             => (page_rows' = page_rows /\ version_rows' = version_rows)]_vars

\* C12 witness: the url was crawled twice in successive jobs with the same
\* markdown; the second crawl is over and the Page is as the first wrote it.
C12_Witness ==
    /\ AllIdle /\ ~overlapped /\ crawl_failed = 0
    /\ Len(crawl_log) = 2 /\ crawl_log[1] = crawl_log[2]
    /\ Len(page_rows) = 1
    /\ page_rows[1].updated_at = 0
    /\ version_rows = << >>

\* C13: after crawls in successive jobs there is one PageVersion per content
\* change, and the version_number values are 1, 2, ... in creation order.
C13_OneVersionPerChange ==
    (AllIdle /\ ~overlapped)
       => /\ Len(version_rows) = Changes(crawl_log)
          /\ \A i \in DOMAIN version_rows : version_rows[i].version_number = i

\* C14: once a crawl in successive jobs has found the content changed, a
\* PageVersion with version_number 1 exists and holds the markdown of the
\* first crawl, the content the change overwrote on the Page.
C14_FirstVersionKeepsOriginal ==
    (AllIdle /\ ~overlapped /\ Changes(crawl_log) >= 1)
       => \E i \in DOMAIN version_rows :
             /\ version_rows[i].version_number = 1
             /\ version_rows[i].content_markdown = crawl_log[1]

\* C15: there is at most one Page row for the (project, url_hash).
C15_OnePagePerUrlHash == Len(page_rows) <= 1

\* C16: with respect_robots enabled, a url that the site's robots.txt
\* disallows for agent * is never put on the frontier and never fetched.
C16_DisallowedNeverCrawled ==
    respect_robots
       => \A u \in site.disallow : enqueued[u] = 0 /\ fetched[u] = 0

\* C17: with follow_external = false a url of another domain is never put on
\* the frontier, fetched or stored; and the crawl of Ex with max_depth = 1
\* and a page ceiling above the number of urls, without fetch error or
\* cancellation, ends with exactly the Pages of s and a.
C17_ExternalNeverCrawled ==
    ~follow_external
       => /\ \A u \in site.external :
                /\ enqueued[u] = 0
                /\ fetched[u] = 0
                /\ \A p \in pages : p.url # u
          /\ (/\ site = Ex /\ max_depth = 1 /\ max_pages = MaxPagesBound
              /\ runPc = "done" /\ ~cancelled /\ fetch_errors = {})
                => {p.url : p \in pages} = {"s", "a"}

\* C17 witness: the crawl of Ex of the example is over, the Pages of s and a
\* are stored, and x, which s links to, was not fetched.
C17_Witness ==
    /\ site = Ex /\ ~follow_external /\ max_depth = 1 /\ max_pages = MaxPagesBound
    /\ runPc = "done" /\ db_status = COMPLETED
    /\ {p.url : p \in pages} = {"s", "a"}
    /\ fetched["x"] = 0

\* C18: without cancellation and storage failure, and with every fetch
\* returning, a job that was set running eventually has status completed.
C18_StartedJobCompletes == (db_status = RUNNING) ~> (db_status = COMPLETED)

\* C18 witness: a job is completed in whose run a fetch failed and an entry
\* was skipped at the page ceiling.
C18_Witness ==
    /\ runPc = "done" /\ db_status = COMPLETED
    /\ fetch_errors # {}
    /\ Cardinality(visited_urls) > max_pages

\* C19: a run in which a commit of the job's counters or error log raised
\* a storage error (and no on_progress call raised) ends with status failed.
C19_StorageErrorFailsRun ==
    (storage_errors > 0 /\ sink_errors = {} /\ RunFinished) => db_status = FAILED

\* C20: a step in which on_progress raises changes neither pages_failed nor
\* error_log and leaves the worker running.
C20_SinkErrorHarmless ==
    [][sink_errors' # sink_errors
          => /\ pages_failed' = pages_failed
             /\ error_log' = error_log
             /\ \A w \in Workers : Live(w) => Live(w)']_vars

\* C22: a fetch that succeeds with a content type other than HTML stores no
\* Page, and the steps of the worker from the response to its next dequeue
\* put nothing on the frontier and leave pages_scraped, pages_failed and
\* error_log as they are.
C22_NonHtmlSkipped ==
    [][/\ \A p \in pages' : p.url \notin site.nonhtml
       /\ \A w \in Workers :
            (/\ wpc[w] \in {"fetch", "sleep"}
             /\ item[w] # None
             /\ item[w][1] \in site.nonhtml
             /\ wpc'[w] \notin {wpc[w], "failed"})
               => /\ pages' = pages
                  /\ url_queue' = url_queue
                  /\ enqueued' = enqueued
                  /\ pages_scraped' = pages_scraped
                  /\ pages_failed' = pages_failed
                  /\ error_log' = error_log]_vars

\* C22 witness: d, which is not HTML, was fetched without error and its
\* worker has moved on; d has no Page and no error_log record.
C22_Witness ==
    /\ "d" \in site.nonhtml
    /\ fetched["d"] = 1
    /\ "d" \notin fetch_errors
    /\ \A w \in Workers : item[w] = None \/ item[w][1] # "d"
    /\ Count(error_log, "d") = 0

\* C23: a worker that has fetched sleeps the rate-limit delay before its
\* next fetch, whatever the outcome of the earlier fetch.
C23_DelayBetweenFetches ==
    [][\A w \in Workers :
          (wpc[w] = "discovered" /\ wpc'[w] = "fetch") => ~delay_owed[w]]_vars

\* C28: the queue's unfinished count is the number of entries queued plus
\* the number of entries dequeued and still held by a worker.
C28_UnfinishedCountsOutstanding ==
    unfinished = Len(url_queue) + Cardinality({w \in Workers : item[w] # None})

\* C29: pages_scraped + pages_failed never exceeds pages_discovered.
C29_CountersWithinDiscovered ==
    pages_scraped + pages_failed <= pages_discovered

\* C8: the number of page fetches of a job never exceeds max_pages.
C8_FetchesWithinMaxPages == TotalFetched <= max_pages

\* C8 witness: max_pages fetches were made and a further url was dequeued
\* and skipped at the ceiling.
C8_Witness ==
    /\ TotalFetched = max_pages
    /\ Cardinality(visited_urls) > max_pages
    /\ NoneInProcess

\* C9: the size of the visited set is at most max_pages in every state.
C9_VisitedWithinMaxPages == Cardinality(visited_urls) <= max_pages

\* C10: no Page has a depth above max_depth, and neither has an entry that is
\* queued or held by a worker: the seed has depth 0 and links of a page at
\* depth d are put at d + 1 only when d < max_depth.
C10_DepthWithinMaxDepth ==
    /\ \A p \in pages : p.depth <= max_depth
    /\ \A i \in DOMAIN url_queue : url_queue[i][2] <= max_depth
    /\ \A w \in Workers : item[w] # None => item[w][2] <= max_depth

\* C10 witness: a Page at depth max_depth > 0 is stored, its worker has moved
\* on, and a link of that page was never put on the frontier.
C10_Witness ==
    /\ max_depth > 0
    /\ \E p \in pages :
          /\ p.depth = max_depth
          /\ \A w \in Workers : item[w] = None \/ item[w][1] # p.url
          /\ \E l \in site.links[p.url] : enqueued[l] = 0

====
